----------------------------- MODULE Spec2Model -----------------------------
(***************************************************************************)
(* Grafana Dashboards Manager: the puller (Grafana -> repository), the     *)
(* pusher's two trigger sources (GitLab webhook, Git poller) and the push  *)
(* helpers they share.  Strings are sequences of one-character strings,    *)
(* files' contents are records, the Grafana instance and the Git remote    *)
(* are the environment.                                                    *)
(***************************************************************************)
EXTENDS Integers, Sequences, FiniteSets, TLC

VARIABLES
    mode,           \* which binary / sync mode runs: see Modes
    ignorePrefix,   \* cfg.Grafana.IgnorePrefix, as left by config.Load
    deleteRemoved,  \* the pusher's --delete-removed flag
    grafana,        \* the Grafana instance: slug -> dashboard
    origin,         \* master on the Git remote: sequence of commits
    local,          \* master in the clone path: sequence of commits
    worktree,       \* the files of the clone path (or of the sync path)
    events,         \* push events GitLab has sent and the webhook has not handled
    running,        \* how many calls of HandlePush have begun and not returned
    poll,           \* the poller's loop variables
    pullLog,        \* what the last call of PullGrafanaAndCommit did
    pushLog,        \* what the last push pass (HandlePush, poller iteration) did
    env             \* how much the environment has done (bounds the model)

vars == <<mode, ignorePrefix, deleteRemoved, grafana, origin, local, worktree,
          events, running, poll, pullLog, pushLog, env>>

-----------------------------------------------------------------------------
(* Bounds of the model *)

MaxVersion == 4
MaxBody == 2
MaxEnvSteps == 2
MaxFaults == 1

-----------------------------------------------------------------------------
(* Strings and slugs *)

AlnumChars == {"a", "b", "t"}

Lower(c) ==
    CASE c = "A" -> "a"
      [] c = "B" -> "b"
      [] c = "T" -> "t"
      [] OTHER -> c

MapChar(c) == IF Lower(c) \in AlnumChars THEN Lower(c) ELSE "-"

RECURSIVE Collapse(_)
Collapse(s) ==
    IF Len(s) < 2 THEN s
    ELSE IF s[1] = "-" /\ s[2] = "-" THEN Collapse(Tail(s))
    ELSE <<s[1]>> \o Collapse(Tail(s))

RECURSIVE TrimLeft(_)
TrimLeft(s) == IF s # <<>> /\ s[1] = "-" THEN TrimLeft(Tail(s)) ELSE s

RECURSIVE TrimRight(_)
TrimRight(s) ==
    IF s # <<>> /\ s[Len(s)] = "-" THEN TrimRight(SubSeq(s, 1, Len(s) - 1)) ELSE s

\* slug.Make: lower-case, every other character becomes "-", runs of "-" are
\* collapsed, leading and trailing "-" are trimmed.
Make(s) == TrimRight(TrimLeft(Collapse([i \in 1..Len(s) |-> MapChar(s[i])])))

HasPrefix(s, p) == Len(p) <= Len(s) /\ SubSeq(s, 1, Len(p)) = p

HasSuffix(s, p) == Len(p) <= Len(s) /\ SubSeq(s, Len(s) - Len(p) + 1, Len(s)) = p

TitleA == <<"A">>
TitleT == <<"T", " ", "B">>
Titles == {TitleA, TitleT}

SlugA == Make(TitleA)
SlugT == Make(TitleT)
Slugs == {Make(t) : t \in Titles}

\* The order in which the Grafana search lists the dashboards.
SlugSeq == <<SlugA, SlugT>>

TitleOf(s) == CHOOSE t \in Titles : Make(t) = s

\* The prefixes the configuration file may give: none, one that is the start
\* of a title, and one of which slug.Make leaves nothing.
RawPrefixes == {<<>>, <<"T">>, <<" ">>}

\* config.Load: the prefix is made a slug once, when the configuration is loaded.
Load(rawPrefix) == Make(rawPrefix)

-----------------------------------------------------------------------------
(* Files and their contents *)

\* A file's name is a sequence of tokens: <<slug, ".json">> is "<slug>.json".
JsonExt == ".json"
VersionsName == <<"versions.json">>
FileOfSlug(s) == <<s, JsonExt>>
DashFiles == {FileOfSlug(s) : s \in Slugs}
Files == DashFiles \cup {VersionsName}

Bodies == 1..MaxBody

NoFile == [kind |-> "nofile"]
Nil == [kind |-> "nil"]
Garbage == [kind |-> "garbage"]
\* A dashboard's document: its title, the rest of it (body), the version
\* number Grafana writes into the document, and its layout.
Dash(t, b, v, f) ==
    [kind |-> "dashboard", title |-> t, body |-> b, version |-> v, fmt |-> f]
VersionsJSON(m) == [kind |-> "versions", map |-> m]

\* indent: json.Indent with tabs; the document is the same, its layout is not.
indent(c) == IF c.kind = "dashboard" THEN [c EXCEPT !.fmt = "indented"] ELSE c

\* What Grafana stores and returns: the document on one line.
Compact(c) == IF c.kind = "dashboard" THEN [c EXCEPT !.fmt = "compact"] ELSE c

EmptyLedger == [s \in {} |-> 0]


-----------------------------------------------------------------------------
(* The Grafana instance (grafana.Client) *)

NoDashboard == [present |-> FALSE, version |-> 0, body |-> 0]

\* GetDashboardsURIs: one URI per dashboard the search returns.
GetDashboardsURIs(gr) == SelectSeq(SlugSeq, LAMBDA s : gr[s].present)

\* GetDashboard / Dashboard.UnmarshalJSON: slug and version from "meta", the
\* document from "dashboard", the name from the document's title.
GetDashboard(gr, s) ==
    [Slug |-> s,
     Name |-> TitleOf(s),
     Version |-> gr[s].version,
     RawJSON |-> Dash(TitleOf(s), gr[s].body, gr[s].version, "compact")]

-----------------------------------------------------------------------------
(* The Git repository (git.Repository) *)

BotEmail == "manager@example.org"
HumanEmail == "human@example.org"

HeadOf(h) == h[Len(h)]

IsPrefix(a, b) == Len(a) <= Len(b) /\ SubSeq(b, 1, Len(a)) = a

\* The message of a commit: its first line and the set of the lines after it.
NoMessage == [title |-> "", lines |-> {}]

NewCommit(h, author, tree) ==
    [n |-> Len(h) + 1, author |-> author, tree |-> tree, message |-> NoMessage]

\* Repository.Sync on an existing clone: pull from origin (go-git's
\* Worktree.Pull). With the head of the clone equal to the remote's the pull
\* answers "already up to date", which checkRemoteErrors takes for no error,
\* and the work tree is not touched; a fast-forward resets the work tree and
\* the index to the new head; when the head of the clone is not an ancestor
\* of the remote's, also when the clone is merely ahead, the pull answers
\* "non-fast-forward update", which checkRemoteErrors returns as an error.
Sync(org, loc, wt, fails) ==
    IF fails THEN [err |-> TRUE, local |-> loc, worktree |-> wt]
    ELSE IF org = loc THEN [err |-> FALSE, local |-> loc, worktree |-> wt]
    ELSE IF IsPrefix(loc, org)
         THEN [err |-> FALSE, local |-> org, worktree |-> HeadOf(org).tree]
    ELSE [err |-> TRUE, local |-> loc, worktree |-> wt]

\* Repository.Push: "already up to date" is no error.
Push(org, loc, fails) ==
    IF fails THEN [err |-> TRUE, origin |-> org]
    ELSE IF IsPrefix(org, loc) THEN [err |-> FALSE, origin |-> loc]
    ELSE [err |-> TRUE, origin |-> org]

\* Worktree.Status().IsClean(): nothing differs from HEAD.
IsClean(loc, wt) == wt = HeadOf(loc).tree

-----------------------------------------------------------------------------
(* The puller: versions.json *)

getDashboardsVersionsOrEmpty(wt, fails) ==
    IF wt[VersionsName].kind # "versions" \/ fails
    THEN [err |-> FALSE, versions |-> EmptyLedger]
    ELSE [err |-> FALSE, versions |-> wt[VersionsName].map]

\* getDashboardsVersions: no file is an empty map; a file that is no map of
\* versions is an error.
getDashboardsVersions(wt, fails) ==
    IF wt[VersionsName] = NoFile THEN [err |-> FALSE, versions |-> EmptyLedger]
    ELSE IF fails \/ wt[VersionsName].kind # "versions"
         THEN [err |-> TRUE, versions |-> EmptyLedger]
    ELSE [err |-> FALSE, versions |-> wt[VersionsName].map]

\* rewriteFile: remove, indent, write. fk names the step that fails, if any.
rewriteFile(wt, name, content, fk) ==
    IF fk = "remove" THEN [err |-> TRUE, worktree |-> wt]
    ELSE IF fk = "write" THEN [err |-> TRUE, worktree |-> [wt EXCEPT ![name] = NoFile]]
    ELSE [err |-> FALSE, worktree |-> [wt EXCEPT ![name] = indent(content)]]

\* The loop of writeVersions: every diff sets its slug to the new version.
MergeVersions(versions, dv) ==
    [s \in DOMAIN versions \cup DOMAIN dv |->
        IF s \in DOMAIN dv THEN dv[s].newVersion ELSE versions[s]]

writeVersions(versions, dv, wt, fk) ==
    rewriteFile(wt, VersionsName, VersionsJSON(MergeVersions(versions, dv)), fk)

\* The author of the puller's commits: the configured one (cfg.Git.CommitsAuthor),
\* as PullGrafanaAndCommit hands cfg to commitNewVersions. The versions.go at
\* hand takes the clone path instead and signs with a fixed email.
CommitAuthor == BotEmail

\* One line of the commit message: "slug: old => new".
Line(slug, old, new) == [slug |-> slug, old |-> old, new |-> new]

getCommitMessageNewOnly(dv) ==
    [title |-> "Updated dashboards",
     lines |-> {Line(s, 0, dv[s].newVersion) : s \in DOMAIN dv}]

\* getCommitMessage (versions.go:143-153): one line per diff, in the order in
\* which Go ranges over the map, which is any order.
getCommitMessage(dv) ==
    [title |-> "Updated dashboards",
     lines |-> {Line(s, dv[s].oldVersion, dv[s].newVersion) : s \in DOMAIN dv}]

\* commitNewVersions: write versions.json, add it, commit the index.
commitNewVersions(versions, dv, loc, wt, fk) ==
    LET w == writeVersions(versions, dv, wt, fk) IN
    IF w.err THEN [err |-> TRUE, worktree |-> w.worktree, local |-> loc,
                   wrote |-> FALSE, committed |-> FALSE]
    ELSE IF fk = "commit"
         THEN [err |-> TRUE, worktree |-> w.worktree, local |-> loc,
               wrote |-> TRUE, committed |-> FALSE]
    ELSE [err |-> FALSE, worktree |-> w.worktree,
          local |-> Append(loc, [NewCommit(loc, CommitAuthor, w.worktree)
                                    EXCEPT !.message = getCommitMessage(dv)]),
          wrote |-> TRUE, committed |-> TRUE]

-----------------------------------------------------------------------------
(* The puller: PullGrafanaAndCommit *)

\* What can fail in one call of PullGrafanaAndCommit: nothing, or one step.
\* "at" is the position, in the list of URIs, of the dashboard it fails on.
NoFailure == [kind |-> "none", at |-> 0]
PassFailureKinds ==
    {"sync", "list", "versions", "status", "versions_remove", "versions_write",
     "commit", "push"}
LoopFailureKinds == {"fetch", "remove", "write"}
Failures ==
    {NoFailure}
    \cup {[kind |-> k, at |-> 0] : k \in PassFailureKinds}
    \cup {[kind |-> k, at |-> i] : k \in LoopFailureKinds, i \in 1..Len(SlugSeq)}

\* puller.go:85-95: the dashboard is skipped when a prefix is set and its slug
\* starts with it.
PullIgnoredExact(prefix, slug) == Len(prefix) > 0 /\ slug = prefix

PullIgnored(prefix, slug) == Len(prefix) > 0 /\ HasPrefix(slug, prefix)

\* puller.go:103: no known version, or Grafana's version is greater.
NeedsUpdateGE(ok, version, newVersion) == ~ok \/ newVersion >= version

NeedsUpdateNE(ok, version, newVersion) == ~ok \/ newVersion # version

NeedsUpdate(ok, version, newVersion) == ~ok \/ newVersion > version

\* addDashboardChangesToRepo: rewrite <slug>.json, add it to the index.
addDashboardChangesToRepo(dashboard, wt, fk) ==
    rewriteFile(wt, FileOfSlug(dashboard.Slug), dashboard.RawJSON, fk)

SetDiff(dv, slug, old, new) ==
    [s \in DOMAIN dv \cup {slug} |->
        IF s = slug THEN [oldVersion |-> old, newVersion |-> new] ELSE dv[s]]

\* puller.go:81-83: the error of GetDashboard ends the loop and the pass.
FetchFailureSkipped(acc) == acc

FetchFailed(acc) == [acc EXCEPT !.err = TRUE]

\* The loop over the URIs (puller.go:74-126). acc carries the files, the
\* diffs and what the loop did so far; the loop ends at the first error.
RECURSIVE PullLoop(_, _, _, _, _, _, _)
PullLoop(uris, i, acc, gr, dbVersions, prefix, f) ==
    LET fk == IF f.at = i THEN f.kind ELSE "none"
        Fetched(dashboard) == [acc EXCEPT !.fetched = Append(@, dashboard.Slug)]
        Rewritten(dashboard, version, rw) ==
            IF rw.err
            THEN [Fetched(dashboard) EXCEPT !.worktree = rw.worktree,
                                            !.attempted = @ \cup {dashboard.Slug},
                                            !.err = TRUE]
            ELSE PullLoop(uris, i + 1,
                          [Fetched(dashboard) EXCEPT
                              !.worktree = rw.worktree,
                              !.attempted = @ \cup {dashboard.Slug},
                              !.written = @ \cup {dashboard.Slug},
                              !.dv = SetDiff(@, dashboard.Slug, version,
                                             dashboard.Version)],
                          gr, dbVersions, prefix, f)
        Compared(dashboard, ok, version) ==
            IF PullIgnored(prefix, dashboard.Slug)
              THEN PullLoop(uris, i + 1, Fetched(dashboard), gr, dbVersions, prefix, f)
            ELSE IF ~NeedsUpdate(ok, version, dashboard.Version)
              THEN PullLoop(uris, i + 1, Fetched(dashboard), gr, dbVersions, prefix, f)
            ELSE Rewritten(dashboard, version,
                           addDashboardChangesToRepo(dashboard, acc.worktree, fk))
        Got(dashboard) ==
            Compared(dashboard, dashboard.Slug \in DOMAIN dbVersions,
                     IF dashboard.Slug \in DOMAIN dbVersions
                     THEN dbVersions[dashboard.Slug] ELSE 0)
    IN IF i > Len(uris) THEN acc
       ELSE IF f.kind = "fetch" /\ f.at = i THEN FetchFailed(acc)
       ELSE Got(GetDashboard(gr, uris[i]))

\* puller.go:147-151: Push is called outside the test of the status, whether
\* the pass made a commit or not.
PushesOnlyCommits(committed) == committed

PushesAfter(committed) == TRUE

\* What a call of PullGrafanaAndCommit that has not started the loop did.
\* "again" tells that the call follows, with nothing in between, a call that
\* returned without error, "pending" that it follows one that made a commit
\* and failed to push it; "failure" is what was made to fail in the call,
\* "synced" that the call got past its Sync.
NoPull ==
    [ran |-> FALSE, err |-> FALSE, failure |-> NoFailure, synced |-> FALSE,
     looped |-> FALSE, before |-> <<>>, base |-> 0,
     loaded |-> EmptyLedger, fetched |-> <<>>, attempted |-> {}, written |-> {},
     dv |-> EmptyLedger, wroteVersions |-> FALSE, committed |-> FALSE,
     pushAttempted |-> FALSE, pushed |-> FALSE, again |-> FALSE,
     pending |-> FALSE]

\* PullGrafanaAndCommit (puller.go:28-161). git is cfg.Git != nil. The result
\* holds the repository as the call leaves it and the log of what it did.
\* s is what Sync gave, v the versions of versions.json, l what the loop left,
\* c what commitNewVersions gave.
PullGrafanaAndCommit(gr, org, loc, wt, prefix, git, f) ==
    LET fkv == IF f.kind = "versions_remove" THEN "remove"
               ELSE IF f.kind = "versions_write" THEN "write"
               ELSE IF f.kind = "commit" THEN "commit"
               ELSE "none"
        start(s) == [worktree |-> s.worktree, err |-> FALSE, fetched |-> <<>>,
                     attempted |-> {}, written |-> {}, dv |-> EmptyLedger]
        log0 == [NoPull EXCEPT !.ran = TRUE, !.err = TRUE, !.failure = f]
        logS(s) == [log0 EXCEPT !.synced = TRUE, !.before = s.worktree,
                                !.base = Len(s.local)]
        log1(s, v, l) ==
            [logS(s) EXCEPT !.looped = TRUE,
                         !.loaded = v.versions, !.fetched = l.fetched,
                         !.attempted = l.attempted, !.written = l.written,
                         !.dv = l.dv]
        failed(lg, lc, tree) ==
            [origin |-> org, local |-> lc, worktree |-> tree, log |-> lg]
        \* puller.go:149-151: push the commit, if any.
        Pushed(s, v, l, c, p) ==
            [origin |-> p.origin, local |-> c.local, worktree |-> c.worktree,
             log |-> [log1(s, v, l) EXCEPT !.err = p.err,
                                           !.wroteVersions = c.wrote,
                                           !.committed = c.committed,
                                           !.pushAttempted = TRUE,
                                           !.pushed = ~p.err]]
        Committed(s, v, l, c) ==
            IF c.err
            THEN failed([log1(s, v, l) EXCEPT !.wroteVersions = c.wrote],
                        c.local, c.worktree)
            ELSE IF PushesAfter(c.committed)
              THEN Pushed(s, v, l, c, Push(org, c.local, f.kind = "push"))
            ELSE [origin |-> org, local |-> c.local, worktree |-> c.worktree,
                  log |-> [log1(s, v, l) EXCEPT !.err = FALSE,
                                                !.wroteVersions = c.wrote,
                                                !.committed = c.committed]]
        \* puller.go:155: without Git, versions.json is written in any case.
        Written(s, v, l, w) ==
            [origin |-> org, local |-> loc, worktree |-> w.worktree,
             log |-> [log1(s, v, l) EXCEPT !.err = w.err, !.wroteVersions = ~w.err]]
        \* puller.go:139: a commit is made only if the status is not clean.
        Looped(s, v, l) ==
            IF l.err THEN failed(log1(s, v, l), s.local, l.worktree)
            ELSE IF ~git
              THEN Written(s, v, l, writeVersions(v.versions, l.dv, l.worktree, fkv))
            ELSE IF f.kind = "status" THEN failed(log1(s, v, l), s.local, l.worktree)
            ELSE IF IsClean(s.local, l.worktree)
              THEN Committed(s, v, l,
                             [err |-> FALSE, worktree |-> l.worktree,
                              local |-> s.local, wrote |-> FALSE,
                              committed |-> FALSE])
            ELSE Committed(s, v, l,
                           commitNewVersions(v.versions, l.dv, s.local,
                                             l.worktree, fkv))
        Loaded(s, v) ==
            IF f.kind = "list" \/ v.err THEN failed(logS(s), s.local, s.worktree)
            ELSE Looped(s, v, PullLoop(GetDashboardsURIs(gr), 1, start(s), gr,
                                       v.versions, prefix, f))
        Synced(s) ==
            IF s.err THEN failed(log0, loc, wt)
            ELSE Loaded(s, getDashboardsVersions(s.worktree, f.kind = "versions"))
    IN Synced(IF git THEN Sync(org, loc, wt, f.kind = "sync")
              ELSE [err |-> FALSE, local |-> loc, worktree |-> wt])

-----------------------------------------------------------------------------
(* The pusher: what both trigger sources share (pusher/common) *)

\* The content a Go map gives for a name: nil when the name is no key.
Lookup(contents, name) == IF name \in DOMAIN contents THEN contents[name] ELSE Nil

\* helpers.GetDashboardSlug: the slug of the document's title; an error when
\* the content is no JSON document (the slug is then the slug of "").
GetDashboardSlug(c) ==
    [err |-> c.kind \notin {"dashboard", "versions"},
     slug |-> IF c.kind = "dashboard" THEN Make(c.title) ELSE Make(<<>>)]

isIgnoredExact(c, prefix) ==
    IF Len(prefix) = 0 THEN [err |-> FALSE, ignored |-> FALSE]
    ELSE IF GetDashboardSlug(c).err THEN [err |-> TRUE, ignored |-> FALSE]
    ELSE [err |-> FALSE, ignored |-> GetDashboardSlug(c).slug = prefix]

\* isIgnored (common.go:74-92).
isIgnored(c, prefix) ==
    IF Len(prefix) = 0 THEN [err |-> FALSE, ignored |-> FALSE]
    ELSE IF GetDashboardSlug(c).err THEN [err |-> TRUE, ignored |-> FALSE]
    ELSE [err |-> FALSE, ignored |-> HasPrefix(GetDashboardSlug(c).slug, prefix)]

\* FilterIgnored (common.go:13-35): versions.json and the ignored dashboards
\* leave the map of contents; an error of isIgnored ends the filtering.
IsVersionsFile(name) == HasSuffix(name, VersionsName)

FilterIgnored(contents, prefix) ==
    LET checked == {n \in DOMAIN contents : ~IsVersionsFile(n)}
        kept == {n \in checked : ~isIgnored(contents[n], prefix).ignored}
    IN [err |-> \E n \in checked : isIgnored(contents[n], prefix).err,
        read |-> contents,
        contents |-> [n \in kept |-> contents[n]]]

\* Client.CreateOrUpdateDashboard: the request body cannot be generated from
\* a content that is no JSON document, and then no request is sent; else the
\* request is sent and Grafana accepts or rejects it. Grafana numbers the
\* versions: an accepted document gets the next version of its dashboard.
CanMarshal(c) == c.kind \in {"dashboard", "versions"}

GrafanaAccepts(gr, c, rejected) == ~rejected /\ c.kind = "dashboard"

CreateOrUpdateDashboard(gr, c, rejected) ==
    IF ~CanMarshal(c)
      THEN [err |-> TRUE, sent |-> FALSE, answer |-> "none", grafana |-> gr]
    ELSE IF ~GrafanaAccepts(gr, c, rejected)
      THEN [err |-> TRUE, sent |-> TRUE, answer |-> "rejected", grafana |-> gr]
    ELSE [err |-> FALSE, sent |-> TRUE, answer |-> "ok",
          grafana |-> [gr EXCEPT ![Make(c.title)] =
                         [present |-> TRUE, version |-> @.version + 1,
                          body |-> c.body]]]

\* Client.DeleteDashboard: the request is always sent; Grafana answers with an
\* error when it has no dashboard of that slug or rejects the request.
DeleteDashboard(gr, slug, rejected) ==
    IF rejected
      THEN [err |-> TRUE, sent |-> TRUE, answer |-> "rejected", grafana |-> gr]
    ELSE IF slug \notin Slugs \/ ~gr[slug].present
      THEN [err |-> TRUE, sent |-> TRUE, answer |-> "not found", grafana |-> gr]
    ELSE [err |-> FALSE, sent |-> TRUE, answer |-> "ok",
          grafana |-> [gr EXCEPT ![slug] = NoDashboard]]

\* The entries of the lists of files carry, beside the file's name, the commit
\* they come from; the code reads the name only.
Entry(name, commit) == [name |-> name, n |-> commit.n, author |-> commit.author]

\* One call of the Grafana client as the push pass records it.
Call(op, entry, c, g, r) ==
    [op |-> op, entry |-> entry, content |-> c, slug |-> g.slug,
     slugErr |-> (op = "delete" /\ g.err), sent |-> r.sent,
     answer |-> r.answer, err |-> r.err]

\* PushFiles (common.go:37-47): one call per name of the list, in order; an
\* error is logged and the loop goes on. "rej" holds the positions, counted
\* from "base" on, of the calls that Grafana rejects.
RECURSIVE PushFiles(_, _, _, _, _, _, _)
PushFilesUntilError(filenames, i, contents, gr, calls, base, rej) ==
    LET Called(c, r) ==
            IF r.err
            THEN [grafana |-> r.grafana,
                  calls |-> Append(calls, Call("create-or-update", filenames[i], c,
                                               GetDashboardSlug(c), r))]
            ELSE PushFiles(filenames, i + 1, contents, r.grafana,
                           Append(calls, Call("create-or-update", filenames[i], c,
                                              GetDashboardSlug(c), r)),
                           base, rej)
        Read(c) == Called(c, CreateOrUpdateDashboard(gr, c, (base + i) \in rej))
    IN IF i > Len(filenames) THEN [grafana |-> gr, calls |-> calls]
       ELSE Read(Lookup(contents, filenames[i].name))

PushFiles(filenames, i, contents, gr, calls, base, rej) ==
    LET Called(c, r) ==
            PushFiles(filenames, i + 1, contents, r.grafana,
                      Append(calls, Call("create-or-update", filenames[i], c,
                                         GetDashboardSlug(c), r)),
                      base, rej)
        Read(c) == Called(c, CreateOrUpdateDashboard(gr, c, (base + i) \in rej))
    IN IF i > Len(filenames) THEN [grafana |-> gr, calls |-> calls]
       ELSE Read(Lookup(contents, filenames[i].name))

\* DeleteDashboards (common.go:49-68): the slug comes from the content; when
\* it cannot be computed the error is logged and the deletion is requested
\* all the same, with the slug GetDashboardSlug returned.
RECURSIVE DeleteDashboards(_, _, _, _, _, _, _)
DeleteDashboards(filenames, i, contents, gr, calls, base, rej) ==
    LET Called(c, g, r) ==
            DeleteDashboards(filenames, i + 1, contents, r.grafana,
                             Append(calls, Call("delete", filenames[i], c, g, r)),
                             base, rej)
        Slugged(c, g) == Called(c, g, DeleteDashboard(gr, g.slug, (base + i) \in rej))
        Read(c) == Slugged(c, GetDashboardSlug(c))
    IN IF i > Len(filenames) THEN [grafana |-> gr, calls |-> calls]
       ELSE Read(Lookup(contents, filenames[i].name))

\* "if deleteRemoved" (webhook.go:278, poller:134): the dashboards of the
\* removed files are deleted only when the pusher was started with
\* --delete-removed.
DeleteAlways(delRemoved) == TRUE

DeletesRemoved(delRemoved) == delRemoved

-----------------------------------------------------------------------------
(* Commits and the files they touch *)

FileSeq == <<FileOfSlug(SlugA), FileOfSlug(SlugT), VersionsName>>

EmptyTree == [n \in Files |-> NoFile]

ParentTree(h, i) == IF i = 1 THEN EmptyTree ELSE h[i - 1].tree

IsAdded(h, i, n) == ParentTree(h, i)[n] = NoFile /\ h[i].tree[n] # NoFile
IsRemoved(h, i, n) == ParentTree(h, i)[n] # NoFile /\ h[i].tree[n] = NoFile
IsModified(h, i, n) ==
    /\ ParentTree(h, i)[n] # NoFile
    /\ h[i].tree[n] # NoFile
    /\ ParentTree(h, i)[n] # h[i].tree[n]

\* The commit as the push event of GitLab describes it.
PayloadCommit(h, i) ==
    [n |-> h[i].n,
     author |-> h[i].author,
     added |-> SelectSeq(FileSeq, LAMBDA n : IsAdded(h, i, n)),
     modified |-> SelectSeq(FileSeq, LAMBDA n : IsModified(h, i, n)),
     removed |-> SelectSeq(FileSeq, LAMBDA n : IsRemoved(h, i, n))]

MasterRef == "refs/heads/master"
OtherRef == "refs/heads/feature"

\* The push event for the commits of h after the first k.
PushEvent(h, k) ==
    [ref |-> MasterRef, commits |-> [j \in 1..(Len(h) - k) |-> PayloadCommit(h, k + j)]]

-----------------------------------------------------------------------------
(* The pusher: the webhook (pusher/webhook) *)

AnyRef(ref) == TRUE

\* webhook.go:219: only the pushes to master are taken.
OnMaster(ref) == ref = MasterRef

\* webhook.go:225: the commit was made by the manager.
NeverManagerCommit(email) == FALSE

IsManagerCommit(email) == email = BotEmail

\* webhook.go:223-246: the added, modified or removed files of the commits
\* the manager did not make, in the order of the commits.
RECURSIVE GatherFiles(_, _, _)
GatherFiles(commits, i, list) ==
    IF i > Len(commits) THEN <<>>
    ELSE (IF IsManagerCommit(commits[i].author) THEN <<>>
          ELSE [j \in 1..Len(commits[i][list]) |->
                   Entry(commits[i][list][j], commits[i])])
         \o GatherFiles(commits, i + 1, list)

\* getFilesContents (webhook.go:294-309): reads every file of the list from
\* the clone path; the first file that cannot be read ends it with an error.
getFilesContents(filenames, contents, wt) ==
    LET names == {filenames[i].name : i \in 1..Len(filenames)} IN
    [err |-> \E n \in names : wt[n] = NoFile,
     contents |-> [n \in DOMAIN contents \cup names |->
                     IF n \in names THEN wt[n] ELSE contents[n]]]

NoContents == [n \in {} |-> Nil]

\* What a trigger source that has not started a push pass did. "after" tells
\* that the pass follows, with nothing in between, a push pass whose pull
\* made a commit and returned without error.
NoPush ==
    [ran |-> FALSE, source |-> "none", ref |-> "none", from |-> 0, to |-> 0,
     fault |-> "none",
     added |-> <<>>, modified |-> <<>>, removed |-> <<>>, synced |-> FALSE,
     changed |-> FALSE, started |-> FALSE, read |-> NoContents,
     contents |-> NoContents, rej |-> {}, calls |-> <<>>, pulls |-> 0,
     after |-> FALSE]

PushedFirstModified(lg) == lg.modified

\* webhook.go:275-276: the added files are pushed first, then the modified.
PushedFirst(lg) == lg.added
PushedSecond(lg) == lg.modified

\* HandlePush (webhook.go:205-292). c1, c2 and c3 are the contents after the
\* removed, the added and the modified files were read, s is what Sync gave,
\* fi what FilterIgnored gave, p what the calls to Grafana left.
HandlePush(pl, gr, org, loc, wt, prefix, delRemoved, syncFails, rej, f) ==
    LET stop(lg, lc, tree) ==
            [grafana |-> gr, origin |-> org, local |-> lc, worktree |-> tree,
             pushLog |-> lg, pullLog |-> NoPull]
        log0(added, modified, removed) ==
            [NoPush EXCEPT !.ran = TRUE, !.source = "webhook", !.ref = pl.ref,
                           !.from = IF pl.commits = <<>> THEN 0
                                    ELSE pl.commits[1].n - 1,
                           !.to = IF pl.commits = <<>> THEN 0
                                  ELSE pl.commits[Len(pl.commits)].n,
                           !.fault = IF syncFails THEN "sync" ELSE "none",
                           !.rej = rej,
                           !.added = added, !.modified = modified,
                           !.removed = removed]
        \* webhook.go:285: the pull that ends the pass.
        Pulled(lg, fi, p, pull) ==
            [grafana |-> p.grafana, origin |-> pull.origin, local |-> pull.local,
             worktree |-> pull.worktree,
             pushLog |-> [lg EXCEPT !.synced = TRUE, !.started = TRUE,
                                    !.read = fi.read,
                                    !.contents = fi.contents,
                                    !.calls = p.calls, !.pulls = 1],
             pullLog |-> pull.log]
        Deleted(lg, s, fi, p) ==
            Pulled(lg, fi, p,
                   PullGrafanaAndCommit(p.grafana, org, s.local, s.worktree,
                                        prefix, TRUE, f))
        \* webhook.go:278-280
        PushedModified(lg, s, fi, p) ==
            IF DeletesRemoved(delRemoved)
            THEN Deleted(lg, s, fi,
                         DeleteDashboards(lg.removed, 1, fi.contents, p.grafana,
                                          p.calls,
                                          Len(lg.added) + Len(lg.modified), rej))
            ELSE Deleted(lg, s, fi, p)
        \* webhook.go:275-276
        PushedAdded(lg, s, fi, p) ==
            PushedModified(lg, s, fi,
                           PushFiles(PushedSecond(lg), 1, fi.contents, p.grafana,
                                     p.calls, Len(lg.added), rej))
        Filtered(lg, s, fi) ==
            IF fi.err
            THEN stop([lg EXCEPT !.synced = TRUE, !.read = fi.read],
                      s.local, s.worktree)
            ELSE PushedAdded(lg, s, fi,
                             PushFiles(PushedFirst(lg), 1, fi.contents, gr, <<>>,
                                       0, rej))
        ReadModified(lg, s, c3) ==
            IF c3.err THEN stop([lg EXCEPT !.synced = TRUE], s.local, s.worktree)
            ELSE Filtered(lg, s, FilterIgnored(c3.contents, prefix))
        ReadAdded(lg, s, c2) ==
            IF c2.err THEN stop([lg EXCEPT !.synced = TRUE], s.local, s.worktree)
            ELSE ReadModified(lg, s,
                              getFilesContents(lg.modified, c2.contents, s.worktree))
        Synced(lg, c1, s) ==
            IF s.err THEN stop(lg, loc, wt)
            ELSE ReadAdded(lg, s, getFilesContents(lg.added, c1.contents, s.worktree))
        ReadRemoved(lg, c1) ==
            IF c1.err THEN stop(lg, loc, wt)
            ELSE Synced(lg, c1, Sync(org, loc, wt, syncFails))
        Gathered(lg) == ReadRemoved(lg, getFilesContents(lg.removed, NoContents, wt))
    IN
    IF ~OnMaster(pl.ref)
      THEN stop([NoPush EXCEPT !.ran = TRUE, !.source = "webhook",
                               !.ref = pl.ref], loc, wt)
    ELSE Gathered(log0(GatherFiles(pl.commits, 1, "added"),
                       GatherFiles(pl.commits, 1, "modified"),
                       GatherFiles(pl.commits, 1, "removed")))

-----------------------------------------------------------------------------
(* The pusher: the poller (pusher/poller) and the log of the repository *)

\* git.go:392: the commit was done by the manager.
NeverByManager(commit) == FALSE

ByManager(commit) == commit.author = BotEmail

\* The names a commit's stats list, and whether the commit still has the file.
StatNames(h, i) == SelectSeq(FileSeq, LAMBDA n : h[i].tree[n] # ParentTree(h, i)[n])

\* GetModifiedAndRemovedFiles (git.go:373-429): walks the log from "to"
\* towards the first commit. A commit of the manager is passed over; the walk
\* ends at "from"; any other commit gives its files to one of the two lists.
RECURSIVE LogWalk(_, _, _, _)
LogWalk(h, i, from, acc) ==
    IF i < 1 THEN acc
    ELSE IF ByManager(h[i]) THEN LogWalk(h, i - 1, from, acc)
    ELSE IF h[i] = from THEN acc
    ELSE
      LET names == StatNames(h, i)
          gone == SelectSeq(names, LAMBDA n : h[i].tree[n] = NoFile)
          there == SelectSeq(names, LAMBDA n : h[i].tree[n] # NoFile)
      IN LogWalk(h, i - 1, from,
                 [modified |-> acc.modified
                                 \o [j \in 1..Len(there) |-> Entry(there[j], h[i])],
                  removed |-> acc.removed
                                 \o [j \in 1..Len(gone) |-> Entry(gone[j], h[i])]])

GetModifiedAndRemovedFiles(h, from, to) ==
    LogWalk(h, to.n, from, [modified |-> <<>>, removed |-> <<>>])

\* GetFilesContentsAtCommit: the content of every file of the commit's tree.
GetFilesContentsAtCommit(commit) ==
    [n \in {m \in Files : commit.tree[m] # NoFile} |-> commit.tree[n]]

\* mergeContents (poller): the current content of the added or modified files,
\* the previous content of the removed ones.
mergeContents(modified, removed, filesContents, previousFilesContents) ==
    LET mod == {modified[i].name : i \in 1..Len(modified)}
        rem == {removed[i].name : i \in 1..Len(removed)}
    IN [n \in mod \cup rem |->
          IF n \in rem THEN Lookup(previousFilesContents, n)
          ELSE Lookup(filesContents, n)]

PollerFailures == {"none", "sync", "latest", "contents", "changes"}

ErrorLogged(pv) == pv

\* poller returns the error (poller:65-125) and Setup, which waits for it on
\* the channel, returns it (poller:36-45): the loop has ended.
Returned(pv) == [pv EXCEPT !.pc = "stopped"]

NewCommitsAlways(previousCommit, latestCommit) == TRUE

\* poller:99: the hashes of the previous and of the latest commit differ.
NewCommits(previousCommit, latestCommit) == previousCommit # latestCommit

\* One iteration of the loop of poller (poller:85-156). The result holds the
\* loop's variables for the next iteration; a stopped loop is one that
\* returned an error. s is what Sync gave, ch the lists of files, fi what
\* FilterIgnored gave, p what the calls to Grafana left.
PollerIteration(pv, gr, org, loc, wt, prefix, delRemoved, gf, rej, f) ==
    LET log0 == [NoPush EXCEPT !.ran = TRUE, !.source = "poller",
                               !.from = pv.previousCommit.n, !.fault = gf,
                               !.rej = rej]
        log1(s) == [log0 EXCEPT !.synced = TRUE, !.to = HeadOf(s.local).n,
                                !.changed = gf # "latest"
                                            /\ pv.previousCommit # HeadOf(s.local)]
        log2(s, ch, fi) ==
            [log1(s) EXCEPT !.modified = ch.modified, !.removed = ch.removed,
                            !.read = fi.read]
        stop(lg, lc, tree) ==
            [grafana |-> gr, origin |-> org, local |-> lc, worktree |-> tree,
             pushLog |-> lg, pullLog |-> NoPull, poll |-> Returned(pv)]
        next(latestCommit, filesContents) ==
            [pc |-> "loop", previousCommit |-> latestCommit,
             previousFilesContents |-> filesContents]
        \* poller:141-151: the pull's error is logged, the loop goes on.
        Pulled(s, ch, fi, p, pull) ==
            [grafana |-> p.grafana, origin |-> pull.origin, local |-> pull.local,
             worktree |-> pull.worktree,
             pushLog |-> [log2(s, ch, fi) EXCEPT !.started = TRUE,
                                          !.contents = fi.contents,
                                          !.calls = p.calls, !.pulls = 1],
             pullLog |-> pull.log,
             poll |-> next(HeadOf(s.local), GetFilesContentsAtCommit(HeadOf(s.local)))]
        Deleted(s, ch, fi, p) ==
            Pulled(s, ch, fi, p,
                   PullGrafanaAndCommit(p.grafana, org, s.local, s.worktree,
                                        prefix, TRUE, f))
        \* poller:134-136
        Pushed(s, ch, fi, p) ==
            IF DeletesRemoved(delRemoved)
            THEN Deleted(s, ch, fi,
                         DeleteDashboards(ch.removed, 1, fi.contents, p.grafana,
                                          p.calls, Len(ch.modified), rej))
            ELSE Deleted(s, ch, fi, p)
        Filtered(s, ch, fi) ==
            IF fi.err THEN stop(log2(s, ch, fi), s.local, s.worktree)
            ELSE Pushed(s, ch, fi,
                        PushFiles(ch.modified, 1, fi.contents, gr, <<>>, 0, rej))
        Changed(s, ch) ==
            Filtered(s, ch,
                     FilterIgnored(mergeContents(ch.modified, ch.removed,
                                                 GetFilesContentsAtCommit(HeadOf(s.local)),
                                                 pv.previousFilesContents),
                                   prefix))
        Synced(s) ==
            IF s.err THEN stop(log0, loc, wt)
            ELSE IF gf = "latest" THEN stop(log1(s), s.local, s.worktree)
            ELSE IF ~NewCommits(pv.previousCommit, HeadOf(s.local))
              THEN [grafana |-> gr, origin |-> org, local |-> s.local,
                    worktree |-> s.worktree, pushLog |-> log1(s), pullLog |-> NoPull,
                    poll |-> next(HeadOf(s.local), pv.previousFilesContents)]
            ELSE IF gf \in {"contents", "changes"}
              THEN stop(log1(s), s.local, s.worktree)
            ELSE Changed(s, GetModifiedAndRemovedFiles(s.local, pv.previousCommit,
                                                       HeadOf(s.local)))
    IN Synced(Sync(org, loc, wt, gf = "sync"))

-----------------------------------------------------------------------------
(* The system: its initial states *)

Modes == {"simple-sync", "puller", "webhook", "git-pull"}
GitModes == Modes \ {"simple-sync"}

\* The Grafana instance as the manager finds it: two dashboards, the first at
\* the version of a new dashboard or after one save, the second after two.
InitGrafana ==
    {[s \in Slugs |-> IF s = SlugA THEN [present |-> TRUE, version |-> va, body |-> 1]
                      ELSE [present |-> TRUE, version |-> 2, body |-> 1]] :
        va \in {0, 1}}

\* The tree a puller that has pulled everything leaves. The puller may also
\* start from the tree of a pass made before the prefix was configured, or
\* before the second dashboard was created in Grafana.
SyncedTree(gr, prefix) ==
    LET known == {s \in Slugs : gr[s].present /\ ~PullIgnored(prefix, s)} IN
    [n \in Files |->
        IF n = VersionsName THEN VersionsJSON([s \in known |-> gr[s].version])
        ELSE IF \E s \in known : n = FileOfSlug(s)
             THEN LET s == CHOOSE x \in known : n = FileOfSlug(x)
                  IN indent(GetDashboard(gr, s).RawJSON)
        ELSE NoFile]

FirstCommit(tree) ==
    [n |-> 1, author |-> HumanEmail, tree |-> tree, message |-> NoMessage]

NoPoll == [pc |-> "start", previousCommit |-> FirstCommit(EmptyTree),
           previousFilesContents |-> NoContents]

Init ==
    /\ mode \in Modes
    /\ \E raw \in RawPrefixes : ignorePrefix = Load(raw)
    /\ deleteRemoved \in (IF mode \in {"webhook", "git-pull"} THEN BOOLEAN ELSE {FALSE})
    /\ grafana \in InitGrafana
    /\ worktree \in (IF mode \in {"webhook", "git-pull"} THEN {}
                     ELSE {EmptyTree, SyncedTree(grafana, <<>>),
                           SyncedTree([grafana EXCEPT ![SlugT] = NoDashboard],
                                      <<>>)})
                    \cup {SyncedTree(grafana, ignorePrefix)}
    /\ local = <<FirstCommit(worktree)>>
    /\ origin = local
    /\ events = <<>>
    /\ running = 0
    /\ poll = NoPoll
    /\ pullLog = NoPull
    /\ pushLog = NoPush
    /\ env = [steps |-> 0, faults |-> 0]

-----------------------------------------------------------------------------
(* The environment: Grafana's users and the repository's committers *)

\* A user of Grafana saves a dashboard (a new one gets the first version).
RemoteEdit ==
    /\ env.steps < MaxEnvSteps
    /\ \E s \in Slugs, b \in Bodies :
         /\ grafana[s].version < MaxVersion
         /\ grafana[s].present => b # grafana[s].body
         /\ grafana' = [grafana EXCEPT ![s] =
                           [present |-> TRUE, version |-> @.version + 1, body |-> b]]
    /\ env' = [env EXCEPT !.steps = @ + 1]
    /\ pullLog' = NoPull
    /\ pushLog' = NoPush
    /\ UNCHANGED <<running, mode, ignorePrefix, deleteRemoved, origin, local, worktree,
                   events, poll>>

\* A user of Grafana deletes a dashboard.
RemoteDelete ==
    /\ env.steps < MaxEnvSteps
    /\ \E s \in Slugs :
         /\ grafana[s].present
         /\ grafana' = [grafana EXCEPT ![s] = NoDashboard]
    /\ env' = [env EXCEPT !.steps = @ + 1]
    /\ pullLog' = NoPull
    /\ pushLog' = NoPush
    /\ UNCHANGED <<running, mode, ignorePrefix, deleteRemoved, origin, local, worktree,
                   events, poll>>

\* What a committer may do to one file in one commit: write a dashboard's
\* document into its file, write something that is no JSON, or remove it.
HumanContents(n, tree) ==
    (IF n = VersionsName THEN {Garbage}
     ELSE {Garbage}
          \cup {Dash(TitleOf(s), b, IF tree[n].kind = "dashboard"
                                    THEN tree[n].version ELSE 0, "indented") :
                  s \in {x \in Slugs : FileOfSlug(x) = n}, b \in Bodies})
    \cup {NoFile}

HumanCommits(h) ==
    {NewCommit(h, HumanEmail, [HeadOf(h).tree EXCEPT ![n] = c]) :
        n \in Files, c \in UNION {HumanContents(m, HeadOf(h).tree) : m \in Files}}

ValidHumanCommit(h, c) ==
    /\ c.tree # HeadOf(h).tree
    /\ \A n \in Files : c.tree[n] # HeadOf(h).tree[n]
                          => c.tree[n] \in HumanContents(n, HeadOf(h).tree)

\* GitLab sends a push event when the webhook is set up.
SendEvent(org, newOrg) ==
    IF mode = "webhook" /\ newOrg # org
    THEN <<PushEvent(newOrg, Len(org))>>
    ELSE <<>>

\* A committer pushes one commit to master.
HumanPush ==
    /\ mode \in GitModes
    /\ env.steps < MaxEnvSteps
    /\ \E c \in HumanCommits(origin) :
         /\ ValidHumanCommit(origin, c)
         /\ origin' = Append(origin, c)
    /\ events' = events \o SendEvent(origin, origin')
    /\ env' = [env EXCEPT !.steps = @ + 1]
    /\ pullLog' = NoPull
    /\ pushLog' = NoPush
    /\ UNCHANGED <<running, mode, ignorePrefix, deleteRemoved, grafana, local, worktree, poll>>

\* A committer pushes two commits to master at once.
HumanPushTwo ==
    /\ mode \in GitModes
    /\ env.steps + 1 < MaxEnvSteps
    /\ \E c \in HumanCommits(origin) :
         /\ ValidHumanCommit(origin, c)
         /\ \E d \in HumanCommits(Append(origin, c)) :
              /\ ValidHumanCommit(Append(origin, c), d)
              /\ origin' = Append(Append(origin, c), d)
    /\ events' = events \o SendEvent(origin, origin')
    /\ env' = [env EXCEPT !.steps = @ + 2]
    /\ pullLog' = NoPull
    /\ pushLog' = NoPush
    /\ UNCHANGED <<running, mode, ignorePrefix, deleteRemoved, grafana, local, worktree, poll>>

\* A committer pushes one commit to a branch other than master: master stays
\* as it is, and GitLab sends the push event of the branch to the webhook.
BranchPush ==
    /\ mode = "webhook"
    /\ env.steps < MaxEnvSteps
    /\ \E c \in HumanCommits(origin) :
         /\ ValidHumanCommit(origin, c)
         /\ events' = Append(events,
                             [ref |-> OtherRef,
                              commits |-> <<PayloadCommit(Append(origin, c),
                                                          Len(origin) + 1)>>])
    /\ env' = [env EXCEPT !.steps = @ + 1]
    /\ pullLog' = NoPull
    /\ pushLog' = NoPush
    /\ UNCHANGED <<running, mode, ignorePrefix, deleteRemoved, grafana, origin, local,
                   worktree, poll>>

-----------------------------------------------------------------------------
(* The system: the manager's binaries *)

\* What the environment makes fail in one push pass: nothing, or a step of
\* the trigger source (gf), or calls that Grafana rejects (rej: one call, or
\* all of them), or a step of the pull that ends the pass (f).
NoFault == [gf |-> "none", rej |-> {}, f |-> NoFailure]

Faults(kinds, total) ==
    {NoFault}
    \cup {[NoFault EXCEPT !.gf = k] : k \in kinds \ {"none"}}
    \cup {[NoFault EXCEPT !.rej = {i}] : i \in 1..total}
    \cup {[NoFault EXCEPT !.rej = 1..total] : i \in 1..total}
    \cup {[NoFault EXCEPT !.f = f] : f \in Failures \ {NoFailure}}

\* The versions Grafana gives stay within the model's bound.
Bounded(gr) == \A s \in Slugs : gr[s].version <= MaxVersion

\* A call in which something fails uses up one of the faults of the model.
MayFail(S, none) == IF env.faults < MaxFaults THEN S ELSE {none}

Spent(fault, none) == [env EXCEPT !.faults = @ + (IF fault = none THEN 0 ELSE 1)]

\* The puller runs once more (puller/main.go).
PullerRun ==
    /\ mode \in {"simple-sync", "puller"}
    /\ \E f \in MayFail(Failures, NoFailure) :
         \E r \in {PullGrafanaAndCommit(grafana, origin, local, worktree,
                                        ignorePrefix, mode = "puller", f)} :
            /\ origin' = r.origin
            /\ local' = r.local
            /\ worktree' = r.worktree
            /\ pullLog' = [r.log EXCEPT
                              !.again = pullLog.ran /\ ~pullLog.err,
                              !.pending = /\ pullLog.committed
                                          /\ pullLog.pushAttempted
                                          /\ ~pullLog.pushed]
            /\ env' = Spent(f, NoFailure)
    /\ pushLog' = NoPush
    /\ UNCHANGED <<running, mode, ignorePrefix, deleteRemoved, grafana, events, poll>>

\* The last step was a push pass whose pull made a commit, without error.
JustCommitted ==
    pushLog.started /\ pullLog.ran /\ ~pullLog.err /\ pullLog.committed

\* The number of entries of the three lists of a push event.
Total(pl) ==
    Len(GatherFiles(pl.commits, 1, "added"))
    + Len(GatherFiles(pl.commits, 1, "modified"))
    + Len(GatherFiles(pl.commits, 1, "removed"))

\* The HTTP server that Setup starts (webhook.go:192-201) receives the request
\* of a push event and calls HandlePush for it on a goroutine of its own;
\* neither Setup nor HandlePush waits for the calls that have not returned.
WebhookRequest ==
    /\ mode = "webhook"
    /\ running < Len(events)
    /\ running' = running + 1
    /\ UNCHANGED <<mode, ignorePrefix, deleteRemoved, grafana, origin, local,
                   worktree, events, poll, pullLog, pushLog, env>>

\* The call of HandlePush for the oldest push event runs and returns.
WebhookEvent ==
    /\ mode = "webhook"
    /\ events # <<>>
    /\ running > 0
    /\ running' = running - 1
    /\ \E x \in MayFail(Faults({"sync"}, Total(events[1])), NoFault) :
         \E r \in {HandlePush(events[1], grafana, origin, local, worktree,
                              ignorePrefix, deleteRemoved, x.gf = "sync",
                              x.rej, x.f)} :
            /\ Bounded(r.grafana)
            /\ grafana' = r.grafana
            /\ origin' = r.origin
            /\ local' = r.local
            /\ worktree' = r.worktree
            /\ pushLog' = [r.pushLog EXCEPT !.after = JustCommitted]
            /\ pullLog' = r.pullLog
            /\ events' = Tail(events) \o SendEvent(origin, r.origin)
            /\ env' = Spent(x, NoFault)
    /\ UNCHANGED <<mode, ignorePrefix, deleteRemoved, poll>>

\* poller, before its loop (poller:62-82): the latest commit and its files.
PollerStart ==
    /\ mode = "git-pull"
    /\ poll.pc = "start"
    /\ \E fails \in MayFail(BOOLEAN, FALSE) :
         /\ poll' = IF fails THEN Returned(poll)
                    ELSE [pc |-> "loop", previousCommit |-> HeadOf(local),
                          previousFilesContents |->
                              GetFilesContentsAtCommit(HeadOf(local))]
         /\ env' = Spent(fails, FALSE)
    /\ pullLog' = NoPull
    /\ pushLog' = NoPush
    /\ UNCHANGED <<running, mode, ignorePrefix, deleteRemoved, grafana, origin, local,
                   worktree, events>>

\* The number of entries of the two lists of a poller iteration.
PollTotal ==
    LET Counted(ch) == Len(ch.modified) + Len(ch.removed)
        Synced(s) ==
            Counted(GetModifiedAndRemovedFiles(s.local, poll.previousCommit,
                                               HeadOf(s.local)))
    IN Synced(Sync(origin, local, worktree, FALSE))

\* poller, one iteration of its loop.
PollerLoop ==
    /\ mode = "git-pull"
    /\ poll.pc = "loop"
    /\ \E x \in MayFail(Faults(PollerFailures, PollTotal), NoFault) :
         \E r \in {PollerIteration(poll, grafana, origin, local, worktree,
                                   ignorePrefix, deleteRemoved, x.gf, x.rej, x.f)} :
            /\ Bounded(r.grafana)
            /\ grafana' = r.grafana
            /\ origin' = r.origin
            /\ local' = r.local
            /\ worktree' = r.worktree
            /\ pushLog' = [r.pushLog EXCEPT !.after = JustCommitted]
            /\ pullLog' = r.pullLog
            /\ poll' = r.poll
            /\ env' = Spent(x, NoFault)
    /\ UNCHANGED <<running, mode, ignorePrefix, deleteRemoved, events>>

Next ==
    \/ PullerRun
    \/ WebhookRequest
    \/ WebhookEvent
    \/ PollerStart
    \/ PollerLoop
    \/ RemoteEdit
    \/ RemoteDelete
    \/ HumanPush
    \/ HumanPushTwo
    \/ BranchPush

Spec == Init /\ [][Next]_vars

-----------------------------------------------------------------------------
(* What the claims about the pull pass speak of *)

Range(q) == {q[i] : i \in 1..Len(q)}

\* No call has been made to fail so far.
NothingFailed == env.faults = 0

\* The dashboards the loop of the last pull pass fetched and did not ignore.
Considered == {s \in Range(pullLog.fetched) : ~PullIgnored(ignorePrefix, s)}

\* The version the ledger the pass loaded records for s, 0 when it has none.
LedgerVersion(s) == IF s \in DOMAIN pullLog.loaded THEN pullLog.loaded[s] ELSE 0

\* The ledger persisted in a tree: the map of versions.json, if it has one.
Persisted(tree) ==
    IF tree[VersionsName].kind = "versions" THEN tree[VersionsName].map
    ELSE EmptyLedger

\* The file of s holds what Grafana has for s, whatever its layout.
HoldsRemote(tree, s) ==
    /\ tree[FileOfSlug(s)].kind = "dashboard"
    /\ Compact(tree[FileOfSlug(s)]) = GetDashboard(grafana, s).RawJSON

\* The pass left the file of s and the entry of s in every ledger it wrote as
\* they were when the loop began.
Untouched(s) ==
    /\ s \notin pullLog.attempted
    /\ s \notin DOMAIN pullLog.dv
    /\ worktree[FileOfSlug(s)] = pullLog.before[FileOfSlug(s)]
    /\ worktree[VersionsName].kind = "versions" =>
          /\ s \in DOMAIN Persisted(worktree) <=> s \in DOMAIN pullLog.loaded
          /\ s \in DOMAIN pullLog.loaded =>
                Persisted(worktree)[s] = pullLog.loaded[s]

\* The pass rewrote the file of s and recorded the diff from u to v.
Rewrote(s, u, v) ==
    /\ s \in pullLog.written
    /\ s \in DOMAIN pullLog.dv
    /\ pullLog.dv[s] = [oldVersion |-> u, newVersion |-> v]
    /\ HoldsRemote(worktree, s)

C2_LedgerAndFilesMatchRemote ==
    (pullLog.ran /\ ~pullLog.err /\ NothingFailed) =>
        \A s \in Slugs :
            (grafana[s].present /\ ~PullIgnored(ignorePrefix, s)) =>
                /\ s \in DOMAIN Persisted(worktree)
                /\ Persisted(worktree)[s] = grafana[s].version
                /\ HoldsRemote(worktree, s)

\* C3 as the specification states it: a pull pass that follows a pull pass
\* which returned without error, nothing having happened in between, and that
\* returns without error itself, nothing having been made to fail, writes no
\* dashboard file, changes nothing of the ledger and makes no commit.
C3_SecondPassDoesNothing ==
    (pullLog.again /\ ~pullLog.err /\ NothingFailed) =>
        /\ pullLog.attempted = {}
        /\ Persisted(worktree) = pullLog.loaded
        /\ ~pullLog.committed

C15_FetchFailureEndsPass ==
    (/\ pullLog.ran /\ pullLog.synced
     /\ \/ pullLog.failure.kind = "list"
        \/ /\ pullLog.failure.kind = "fetch"
           /\ pullLog.looped
           /\ pullLog.failure.at <= Len(GetDashboardsURIs(grafana))) =>
        /\ pullLog.err
        /\ pullLog.fetched =
              (IF pullLog.failure.kind = "list" THEN <<>>
               ELSE SubSeq(GetDashboardsURIs(grafana), 1, pullLog.failure.at - 1))
        /\ worktree[VersionsName] = pullLog.before[VersionsName]
        /\ ~pullLog.wroteVersions
        /\ ~pullLog.committed
        /\ ~pullLog.pushAttempted

\* C15's case: the fetch of the second dashboard failed in a pass that had
\* rewritten the file of the first.
C15_Witness ==
    /\ pullLog.ran /\ pullLog.err
    /\ pullLog.failure = [kind |-> "fetch", at |-> 2]
    /\ Len(pullLog.fetched) = 1
    /\ pullLog.written # {}

\* C16 as the specification states it: a pull pass with Git that returned
\* without error, nothing having been made to fail, has made a commit if and
\* only if it rewrote the file of at least one dashboard, and the commit holds
\* the ledger it loaded merged with the diffs.
C16_CommitIffRewritten ==
    (pullLog.ran /\ ~pullLog.err /\ NothingFailed /\ mode \in GitModes) =>
        /\ pullLog.committed <=> pullLog.written # {}
        /\ pullLog.committed =>
              /\ pullLog.wroteVersions
              /\ Persisted(HeadOf(local).tree) =
                    MergeVersions(pullLog.loaded, pullLog.dv)

\* The pull pass ran with Git and fetched every dashboard Grafana lists.
FetchedAll ==
    /\ pullLog.ran /\ mode \in GitModes /\ pullLog.looped
    /\ pullLog.fetched = GetDashboardsURIs(grafana)

\* C17 as the specification states it: a pull pass with Git that fetched all
\* the dashboards has attempted a push.
C17_PushAlwaysAttempted ==
    FetchedAll => pullLog.pushAttempted

\* C17, amended: a pull pass with Git that fetched all the dashboards, in
\* which no rewrite of a file failed and in which neither the status, the
\* write of versions.json nor the commit was made to fail, has attempted a
\* push, also when it made no commit.
C17_PushAttemptedUnlessLocalFailure ==
    (/\ FetchedAll
     /\ pullLog.attempted = pullLog.written
     /\ pullLog.failure.kind \notin
           {"status", "versions_remove", "versions_write", "commit"}) =>
        pullLog.pushAttempted

\* C17's case: a pass with Git that made no commit attempted the push.
C17_Witness ==
    /\ FetchedAll
    /\ ~pullLog.err /\ ~pullLog.committed
    /\ pullLog.pushAttempted

\* C18 as the specification states it: a pull pass that follows, with an
\* unchanged Grafana, a pass that made a commit and failed to push it, and in
\* which nothing is made to fail, records no diff, makes no commit, attempts
\* the push and leaves the remote with the commits of the clone.
C18_PendingCommitIsPushed ==
    (pullLog.pending /\ pullLog.failure = NoFailure) =>
        /\ pullLog.dv = EmptyLedger
        /\ ~pullLog.committed
        /\ pullLog.pushAttempted
        /\ pullLog.pushed
        /\ origin = local

\* The slug starts with the configured prefix, which is not empty.
Prefixed(s) == Len(ignorePrefix) > 0 /\ HasPrefix(s, ignorePrefix)

-----------------------------------------------------------------------------
(* What the claims about the push pass speak of *)

\* The history the trigger source of the last push pass read its commits from.
History == IF pushLog.source = "webhook" THEN origin ELSE local

\* The entries of the lists the last push pass was given.
Given == pushLog.added \o pushLog.modified \o pushLog.removed

\* The entries a call is made for: the removed ones only with --delete-removed.
Batch ==
    pushLog.added \o pushLog.modified
    \o (IF deleteRemoved THEN pushLog.removed ELSE <<>>)

\* The commits the trigger source met are the manager's, all of them.
BotOnly ==
    /\ pushLog.to > pushLog.from
    /\ pushLog.to <= Len(History)
    /\ \A i \in (pushLog.from + 1)..pushLog.to : History[i].author = BotEmail

\* C5: every entry of the added, modified and removed lists of a push pass
\* comes from a commit of the history that the manager did not make and that
\* changed the entry's file.
C5_NoBotChangeInLists ==
    pushLog.ran =>
        \A i \in 1..Len(Given) :
            /\ Given[i].author # BotEmail
            /\ Given[i].n \in 1..Len(History)
            /\ History[Given[i].n].author = Given[i].author
            /\ History[Given[i].n].tree[Given[i].name]
                  # ParentTree(History, Given[i].n)[Given[i].name]

\* C5's case: the poller met, between the previous commit and the latest one,
\* a commit of the manager that changed files and a commit of somebody else,
\* and the lists hold entries.
C5_Witness ==
    /\ pushLog.started /\ pushLog.source = "poller"
    /\ Given # <<>>
    /\ \E i \in (pushLog.from + 1)..pushLog.to :
          /\ local[i].author = BotEmail
          /\ local[i].tree # ParentTree(local, i)

\* C6 as the specification states it, its first half: a push pass that follows
\* a push pass whose pull committed, and that meets nothing but commits of the
\* manager, nothing having been made to fail, makes no call to Grafana and no
\* commit.
C6_BotCommitCausesNothing ==
    (pushLog.after /\ BotOnly /\ NothingFailed) =>
        /\ pushLog.calls = <<>>
        /\ ~pullLog.committed

\* The file of the entry held, in the entry's commit, a dashboard that the
\* prefix does not make ignored.
Pushable(e) ==
    /\ ~IsVersionsFile(e.name)
    /\ e.n \in 1..Len(origin)
    /\ origin[e.n].tree[e.name].kind = "dashboard"
    /\ ~PullIgnored(ignorePrefix, Make(origin[e.n].tree[e.name].title))

\* C7 as the specification states it: when the webhook has synchronised the
\* repository for a push event, nothing having been made to fail, a
\* create-or-update call is attempted for every added or modified file that is
\* neither versions.json nor ignored.
C7_EveryAddedOrModifiedIsPushed ==
    (/\ pushLog.ran /\ pushLog.source = "webhook" /\ pushLog.synced
     /\ NothingFailed) =>
        \A i \in 1..Len(pushLog.added \o pushLog.modified) :
            Pushable((pushLog.added \o pushLog.modified)[i]) =>
                \E k \in 1..Len(pushLog.calls) :
                    /\ pushLog.calls[k].op = "create-or-update"
                    /\ pushLog.calls[k].entry = (pushLog.added \o pushLog.modified)[i]

\* C8 as the specification states it: a push pass (a push event for which the
\* webhook synchronised the repository, an iteration of the poller that found
\* a new latest commit), nothing having been made to fail, calls the pull pass
\* once.
C8_PullOncePerPass ==
    (/\ pushLog.ran
     /\ NothingFailed
     /\ \/ pushLog.source = "webhook" /\ pushLog.synced
        \/ pushLog.source = "poller" /\ pushLog.changed) =>
        pushLog.pulls = 1

\* C9: in a push pass that reached its calls, there is one call per entry of
\* the batch, in the batch's order; a call that Grafana rejects reports an
\* error; a create-or-update call of a dashboard that Grafana does not reject
\* is sent and reports none; the pull pass is called once.
C9_PartialFailureIsolation ==
    pushLog.started =>
        /\ Len(pushLog.calls) = Len(Batch)
        /\ \A i \in 1..Len(pushLog.calls) :
              /\ pushLog.calls[i].entry = Batch[i]
              /\ pushLog.calls[i].op =
                    (IF i <= Len(pushLog.added) + Len(pushLog.modified)
                     THEN "create-or-update" ELSE "delete")
              /\ (i \in pushLog.rej /\ pushLog.calls[i].sent) => pushLog.calls[i].err
              /\ (/\ i \notin pushLog.rej
                  /\ pushLog.calls[i].op = "create-or-update"
                  /\ pushLog.calls[i].content.kind = "dashboard") =>
                    pushLog.calls[i].sent /\ ~pushLog.calls[i].err
        /\ pushLog.pulls = 1
        /\ pullLog.ran

\* C9's case: Grafana rejected the call of one entry, and the call of a later
\* entry of the batch was sent and succeeded.
C9_Witness ==
    /\ pushLog.started
    /\ \E i, j \in 1..Len(pushLog.calls) :
          /\ i < j
          /\ i \in pushLog.rej
          /\ pushLog.calls[i].err
          /\ pushLog.calls[j].sent /\ ~pushLog.calls[j].err

\* The entry's content, as read before the filter, is a dashboard whose slug
\* starts with the prefix.
IgnoredEntry(e) ==
    /\ e.name \in DOMAIN pushLog.read
    /\ pushLog.read[e.name].kind = "dashboard"
    /\ PullIgnored(ignorePrefix, Make(pushLog.read[e.name].title))

\* C10 as the specification states it: in a push pass with a prefix, nothing
\* having been made to fail, no call is sent and no error is reported for an
\* entry whose slug starts with the prefix.
C10_IgnoredTakeNoPart ==
    (pushLog.started /\ Len(ignorePrefix) > 0 /\ NothingFailed) =>
        \A k \in 1..Len(pushLog.calls) :
            IgnoredEntry(pushLog.calls[k].entry) =>
                ~pushLog.calls[k].sent /\ ~pushLog.calls[k].err

\* C12: a push pass of a pusher started without --delete-removed makes no
\* delete call, whatever its removed list holds.
C12_NoDeleteWhenDisabled ==
    (pushLog.ran /\ ~deleteRemoved) =>
        \A k \in 1..Len(pushLog.calls) : pushLog.calls[k].op # "delete"

\* C12's case: without --delete-removed, a push pass that reached its calls
\* was given a removed file whose last content is a dashboard Grafana has.
C12_Witness ==
    /\ pushLog.started /\ ~deleteRemoved
    /\ \E i \in 1..Len(pushLog.removed) :
          /\ pushLog.removed[i].name \in DOMAIN pushLog.contents
          /\ pushLog.contents[pushLog.removed[i].name].kind = "dashboard"
          /\ grafana[Make(pushLog.contents[pushLog.removed[i].name].title)].present

\* The push event without the removed files of its commits.
WithoutRemoved(pl) ==
    [pl EXCEPT !.commits = [j \in DOMAIN pl.commits |->
                               [pl.commits[j] EXCEPT !.removed = <<>>]]]

\* C13 as the specification states it: when the webhook, started without
\* --delete-removed, handles a push event and nothing is made to fail, the
\* calls it makes and the number of pull passes it runs are those of the same
\* event without its removed files.
C13_RemovedHaveNoEffect ==
    [][(/\ mode = "webhook" /\ ~deleteRemoved /\ events # <<>>
        /\ running' < running
        /\ pushLog'.ran /\ pushLog'.source = "webhook"
        /\ NothingFailed') =>
           \A alt \in {HandlePush(WithoutRemoved(events[1]), grafana, origin, local,
                                  worktree, ignorePrefix, FALSE, FALSE, {},
                                  NoFailure)} :
              /\ pushLog'.calls = alt.pushLog.calls
              /\ pushLog'.pulls = alt.pushLog.pulls]_vars

\* C14 as the specification states it: in a push pass, nothing having been
\* made to fail, no request is sent to Grafana for an entry of the lists that
\* names versions.json.
C14_LedgerFileNeverSent ==
    (pushLog.started /\ NothingFailed) =>
        \A k \in 1..Len(pushLog.calls) :
            pushLog.calls[k].entry.name = VersionsName => ~pushLog.calls[k].sent

\* C19 as the specification states it: at most one call of HandlePush has
\* begun and not returned.
C19_OneHandlerAtATime == running <= 1

\* The entries of the two lists GetModifiedAndRemovedFiles gave to the last
\* iteration of the poller.
Walked == pushLog.modified \o pushLog.removed

\* C20 as the specification states it: the lists GetModifiedAndRemovedFiles
\* gives for (from, to) hold exactly the files changed by the commits that the
\* manager did not make, that are reachable from "to" and that are newer than
\* "from"; no commit at or before "from" gives a file, whoever made "from".
\* Stated for the iterations of the poller in which nothing was made to fail.
C20_WalkStopsAtFrom ==
    (/\ pushLog.ran /\ pushLog.source = "poller" /\ pushLog.changed
     /\ pushLog.fault = "none" /\ NothingFailed) =>
        /\ \A i \in 1..Len(Walked) :
              /\ Walked[i].n \in (pushLog.from + 1)..pushLog.to
              /\ local[Walked[i].n].author # BotEmail
              /\ local[Walked[i].n].tree[Walked[i].name]
                    # ParentTree(local, Walked[i].n)[Walked[i].name]
        /\ \A c \in (pushLog.from + 1)..pushLog.to :
              local[c].author # BotEmail =>
                  \A n \in Files :
                      local[c].tree[n] # ParentTree(local, c)[n] =>
                          \E i \in 1..Len(Walked) :
                              Walked[i].n = c /\ Walked[i].name = n

\* The content of a file at a revision of the clone, as a Go map of the
\* revision's files gives it: nil when the revision has no such file.
AtRevision(k, name) ==
    IF k \in 1..Len(local) /\ local[k].tree[name] # NoFile
    THEN local[k].tree[name] ELSE Nil

\* An iteration of the poller that built its map of contents, nothing having
\* been made to fail.
Merged ==
    /\ pushLog.ran /\ pushLog.source = "poller" /\ pushLog.changed
    /\ pushLog.fault = "none" /\ NothingFailed

\* C21 as the specification states it: the map of contents of an iteration of
\* the poller gives, for every added or modified file, its content at the
\* latest revision and, for every removed file, its content at the revision
\* of the previous iteration, which is a content and not nil. Stated for the
\* files of dashboards.
C21_MergedContents ==
    Merged =>
        /\ \A i \in 1..Len(pushLog.modified) :
              ~IsVersionsFile(pushLog.modified[i].name) =>
                  Lookup(pushLog.read, pushLog.modified[i].name)
                      = AtRevision(pushLog.to, pushLog.modified[i].name)
        /\ \A i \in 1..Len(pushLog.removed) :
              ~IsVersionsFile(pushLog.removed[i].name) =>
                  /\ Lookup(pushLog.read, pushLog.removed[i].name)
                        = AtRevision(pushLog.from, pushLog.removed[i].name)
                  /\ Lookup(pushLog.read, pushLog.removed[i].name) # Nil

\* The last iteration of the poller found, after its Sync, the commit it kept
\* from the iteration before.
NoNewCommit(lg) ==
    /\ lg.ran /\ lg.source = "poller" /\ lg.synced
    /\ lg.fault = "none" /\ ~lg.changed

\* C22: an iteration of the poller whose latest commit is the commit kept from
\* the previous iteration makes no call to Grafana, runs no pull pass, and
\* leaves the clone, its files and the remote repository as they were.
C22_NoChangeNoAction ==
    [][(poll.pc = "loop" /\ NoNewCommit(pushLog')) =>
          /\ pushLog'.calls = <<>>
          /\ pushLog'.pulls = 0
          /\ ~pullLog'.ran
          /\ grafana' = grafana
          /\ worktree' = worktree
          /\ local' = local
          /\ origin' = origin]_vars

\* C22's case: such an iteration ran while Grafana holds a dashboard at a
\* version greater than the ledger's, which a pull pass would have written.
C22_Witness ==
    /\ NoNewCommit(pushLog)
    /\ worktree[VersionsName].kind = "versions"
    /\ \E s \in Slugs :
          /\ grafana[s].present
          /\ s \in DOMAIN worktree[VersionsName].map
          /\ worktree[VersionsName].map[s] < grafana[s].version

\* The last iteration of the poller met an error of the synchronisation, of
\* the lookup of the latest commit, of the loading of the files' contents or
\* of the computation of the changed files.
LoopError(lg) ==
    /\ lg.ran /\ lg.source = "poller"
    /\ \/ ~lg.synced
       \/ lg.fault = "latest"
       \/ lg.changed /\ lg.fault \in {"contents", "changes"}

\* C23: after an iteration of the poller that met such an error the loop has
\* ended and Setup has returned, and no iteration runs once the loop has
\* ended: the poller's variables and the logs of the passes stay as they are,
\* and so do Grafana, the clone and its files.
C23_ErrorEndsLoop ==
    /\ [](LoopError(pushLog) => poll.pc = "stopped")
    /\ [][poll.pc = "stopped" =>
            /\ poll' = poll
            /\ ~pushLog'.ran /\ ~pullLog'.ran
            /\ worktree' = worktree /\ local' = local]_vars

\* C23's case: the computation of the changed files failed in an iteration
\* that had found new commits, and the loop has ended.
C23_Witness ==
    /\ LoopError(pushLog) /\ pushLog.changed /\ pushLog.fault = "changes"
    /\ poll.pc = "stopped"

\* C24 as the specification states it: in a pull pass of the puller the pull
\* from the remote is taken for a success, and the pass goes on, unless some
\* other repository error was made to happen, also when go-git answers
\* "already up to date" or "non-fast-forward update"; and likewise the push.
C24_NonErrorsAbsorbed ==
    [][(mode = "puller" /\ pullLog'.ran) =>
          /\ pullLog'.failure.kind # "sync" => pullLog'.synced
          /\ (pullLog'.pushAttempted /\ pullLog'.failure.kind # "push")
                => ~pullLog'.err]_vars

\* The slugs of the dashboards for which a create-or-update call of the last
\* push pass succeeded and that Grafana still holds.
PushedOK ==
    {pushLog.calls[i].slug : i \in
        {j \in 1..Len(pushLog.calls) :
            /\ pushLog.calls[j].op = "create-or-update"
            /\ pushLog.calls[j].answer = "ok"
            /\ pushLog.calls[j].slug \in Slugs
            /\ grafana[pushLog.calls[j].slug].present}}

\* C25 as the specification states it: after a push pass whose trailing pull
\* returned without error, nothing having been made to fail, versions.json
\* records for every dashboard whose create-or-update call succeeded the
\* version Grafana gave it, and the head of the clone holds this
\* versions.json (whoever made the commit: less than the claim asks for).
C25_LedgerFollowsPush ==
    (pushLog.started /\ pullLog.ran /\ ~pullLog.err /\ NothingFailed) =>
        \A s \in PushedOK :
            /\ s \in DOMAIN Persisted(worktree)
            /\ Persisted(worktree)[s] = grafana[s].version
            /\ HeadOf(local).tree[VersionsName] = worktree[VersionsName]

\* The names of the map of contents the last push pass gave to FilterIgnored
\* whose content gives no slug to the test of the prefix.
NoSlug ==
    {n \in DOMAIN pushLog.read :
        ~IsVersionsFile(n) /\ isIgnored(pushLog.read[n], ignorePrefix).err}

\* C26 as the specification states it: a push pass in which the content of an
\* entry gave no slug to the filter of the ignored dashboards, nothing having
\* been made to fail, still goes on to its calls to Grafana and to its
\* trailing pull, and the loop of the poller goes on.
C26_FilterErrorDropsOneEntry ==
    (pushLog.ran /\ NoSlug # {} /\ NothingFailed) =>
        /\ pushLog.started
        /\ pushLog.pulls = 1
        /\ pushLog.source = "poller" => poll.pc = "loop"

\* C27 as the specification states it: a pull pass with Git that returned
\* without error, nothing having been made to fail, has written the file of
\* every dashboard it fetched, did not ignore and found no entry for in
\* versions.json, whatever its version, and has made a commit.
C27_UnknownIsWrittenAndCommitted ==
    (mode # "simple-sync" /\ pullLog.ran /\ ~pullLog.err /\ NothingFailed) =>
        \A s \in Considered :
            s \notin DOMAIN pullLog.loaded =>
                /\ s \in pullLog.written
                /\ pullLog.committed

\* C28: the handler of a push event whose ref is not refs/heads/master
\* leaves the clone and its files, the remote repository and Grafana as they
\* are: no synchronisation, no call to Grafana, no pull pass.
C28_OtherRefDoesNothing ==
    [][(/\ mode = "webhook" /\ events # <<>> /\ running' < running
        /\ events[1].ref # MasterRef) =>
          /\ pushLog'.ran /\ pushLog'.ref = events[1].ref
          /\ ~pushLog'.synced
          /\ pushLog'.calls = <<>>
          /\ pushLog'.pulls = 0
          /\ ~pullLog'.ran
          /\ local' = local /\ worktree' = worktree
          /\ origin' = origin /\ grafana' = grafana]_vars

\* C28's case: the handler has returned for an event of another branch while
\* master holds commits that the clone does not have.
C28_Witness ==
    /\ pushLog.ran /\ pushLog.source = "webhook" /\ pushLog.ref = OtherRef
    /\ origin # local

\* The commit a pull pass made has one line "slug: old => new" for every
\* dashboard whose file the pass rewrote and for no other, old being the
\* version of the ledger the pass loaded (0 without entry) and new the
\* version fetched.
CommitListsRewritten ==
    (pullLog.ran /\ pullLog.committed) =>
        /\ Len(local) = pullLog.base + 1
        /\ HeadOf(local).author = CommitAuthor
        /\ HeadOf(local).message.lines
              = {Line(s, LedgerVersion(s), grafana[s].version) :
                    s \in pullLog.written}

\* The scenario in the names of the model: the ledger the pass loaded has an
\* entry for "a" only, at the version Grafana holds, the file of "a" is
\* there, and Grafana also holds "t-b", which is not ignored.
Scenario ==
    /\ pullLog.ran /\ ~pullLog.err /\ mode = "puller"
    /\ DOMAIN pullLog.loaded = {SlugA}
    /\ pullLog.loaded[SlugA] = grafana[SlugA].version
    /\ pullLog.before[FileOfSlug(SlugA)] # NoFile
    /\ grafana[SlugA].present /\ grafana[SlugT].present
    /\ ~PullIgnored(ignorePrefix, SlugT)

\* The pass of the scenario writes the file of "t-b" only, the ledger gets the
\* entry of "t-b" beside the one of "a", and the one commit has the one line
\* "t-b: 0 => version".
ScenarioOutcome ==
    Scenario =>
        /\ pullLog.written = {SlugT}
        /\ worktree[FileOfSlug(SlugA)] = pullLog.before[FileOfSlug(SlugA)]
        /\ Persisted(worktree)
              = (SlugA :> grafana[SlugA].version @@ SlugT :> grafana[SlugT].version)
        /\ pullLog.committed
        /\ Len(local) = pullLog.base + 1
        /\ HeadOf(local).message.lines
              = {Line(SlugT, 0, grafana[SlugT].version)}

\* C29: the commit of a pull pass lists the dashboards rewritten in the pass,
\* each with the version of the ledger at the start of the pass and the
\* version fetched; and the scenario (ledger with one entry, equal to the
\* remote version, and a second dashboard on the remote) ends with the second
\* file created, both entries in the ledger and one commit with one line.
C29_CommitMessageListsRewritten == CommitListsRewritten /\ ScenarioOutcome

\* C29's case: the pass of the scenario has made its commit.
C29_Witness == Scenario /\ pullLog.committed /\ pullLog.written = {SlugT}

\* The commits of a history that a pull pass made: those with its message.
ByPullPass(h) == {i \in 1..Len(h) : h[i].message.title = "Updated dashboards"}

C31_NoDeleteWithoutSlug ==
    (pushLog.ran /\ NothingFailed) =>
        \A i \in 1..Len(pushLog.calls) :
            (/\ pushLog.calls[i].op = "delete"
             /\ ~IsVersionsFile(pushLog.calls[i].entry.name)
             /\ pushLog.calls[i].slugErr) => ~pushLog.calls[i].sent

\* C32: the calls of a push pass that reached them are, in this order, one
\* create-or-update call per added file, one per modified file and, with
\* --delete-removed, one delete call per removed file; the trailing pull
\* runs once, after them: the files it wrote hold what Grafana has after the
\* last call.
C32_CallsThenPull ==
    pushLog.started =>
        /\ Len(pushLog.calls) = Len(Batch)
        /\ \A i \in 1..Len(pushLog.calls) :
              /\ pushLog.calls[i].entry = Batch[i]
              /\ pushLog.calls[i].op
                    = IF i <= Len(pushLog.added) + Len(pushLog.modified)
                      THEN "create-or-update" ELSE "delete"
        /\ pushLog.pulls = 1 /\ pullLog.ran
        /\ ~pullLog.err => \A s \in pullLog.written : HoldsRemote(worktree, s)

\* C32's case: a pass of the webhook with an added and a modified file that
\* differ, whose calls changed Grafana and whose pull wrote a file.
C32_Witness ==
    /\ pushLog.started /\ pushLog.source = "webhook"
    /\ pushLog.added # <<>> /\ pushLog.modified # <<>>
    /\ pushLog.added[1].name # pushLog.modified[1].name
    /\ ~pullLog.err /\ pullLog.written # {}

\* The versions.json the last pull pass found after its synchronisation could
\* not be read or parsed.
BadLedgerFile ==
    /\ pullLog.ran /\ pullLog.synced
    /\ pullLog.before[VersionsName] # NoFile
    /\ \/ pullLog.before[VersionsName].kind # "versions"
       \/ pullLog.failure.kind = "versions"

\* C33: a pull pass that finds no versions.json loads the empty ledger and
\* goes on to its loop unless the listing failed; a pull pass that finds a
\* versions.json it cannot read or parse ends with an error, having fetched
\* no dashboard and written no file, made no commit and attempted no push.
C33_LedgerFileAbsentOrBad ==
    /\ (/\ pullLog.ran /\ pullLog.synced
        /\ pullLog.before[VersionsName] = NoFile
        /\ pullLog.failure.kind # "list") =>
            pullLog.looped /\ pullLog.loaded = EmptyLedger
    /\ BadLedgerFile =>
            /\ pullLog.err /\ ~pullLog.looped
            /\ pullLog.fetched = <<>> /\ pullLog.written = {}
            /\ worktree = pullLog.before
            /\ ~pullLog.committed /\ ~pullLog.pushAttempted

\* C33's case: the pass found a versions.json that is no JSON document while
\* Grafana holds dashboards to fetch.
C33_Witness ==
    /\ BadLedgerFile
    /\ pullLog.before[VersionsName].kind = "garbage"
    /\ GetDashboardsURIs(grafana) # <<>>

\* The names of the map of contents of the last push pass that the filter
\* took out as ignored.
TakenOut ==
    {n \in DOMAIN pushLog.read :
        ~IsVersionsFile(n) /\ n \notin DOMAIN pushLog.contents}

\* The prefixes of the configuration file that config.Load turns into the
\* prefix in force.
Configured == {raw \in RawPrefixes : Load(raw) = ignorePrefix}

\* C34 as the specification states it: in a push pass that passed its
\* filter, nothing is ignored when the configuration gives no prefix, and
\* otherwise an entry is ignored exactly when the slug of its title starts
\* with the prefix as config.Load normalised it.
C34_IgnoredIffSlugHasPrefix ==
    pushLog.started =>
        \A raw \in Configured :
            \A n \in {m \in DOMAIN pushLog.read : ~IsVersionsFile(m)} :
                n \in TakenOut <=>
                    /\ raw # <<>>
                    /\ HasPrefix(GetDashboardSlug(pushLog.read[n]).slug, Load(raw))

\* C34 as amended: nothing is ignored when the prefix that config.Load
\* leaves is empty, be it that none is configured or that slug.Make leaves
\* nothing of the one configured; otherwise an entry is ignored exactly when
\* the slug of its title starts with the normalised prefix.
C34_IgnoredIffSlugHasNonEmptyPrefix ==
    pushLog.started =>
        \A raw \in Configured :
            \A n \in {m \in DOMAIN pushLog.read : ~IsVersionsFile(m)} :
                n \in TakenOut <=>
                    /\ Load(raw) # <<>>
                    /\ HasPrefix(GetDashboardSlug(pushLog.read[n]).slug, Load(raw))

\* C34's case: with a prefix in force, the filter took out one entry of the
\* pass and kept another.
C34_Witness ==
    /\ pushLog.started /\ ignorePrefix # <<>>
    /\ TakenOut # {}
    /\ DOMAIN pushLog.contents # {}

\* C35 as the specification states it: an iteration of the poller sends
\* calls only for the files of commits newer than the revision of the
\* previous iteration, whoever made that revision, and it sends one for every
\* file that a commit not made by the manager changed since and that the
\* filter kept. Stated for the iterations in which nothing was made to fail.
C35_PushedInOneIteration ==
    (Merged /\ pushLog.started) =>
        /\ \A i \in 1..Len(pushLog.calls) :
              pushLog.calls[i].entry.n \in (pushLog.from + 1)..pushLog.to
        /\ \A c \in (pushLog.from + 1)..pushLog.to :
              local[c].author # BotEmail =>
                  \A n \in DOMAIN pushLog.contents :
                      (/\ local[c].tree[n] # NoFile
                       /\ local[c].tree[n] # ParentTree(local, c)[n]) =>
                          \E i \in 1..Len(pushLog.calls) :
                              /\ pushLog.calls[i].op = "create-or-update"
                              /\ pushLog.calls[i].entry.n = c
                              /\ pushLog.calls[i].entry.name = n

\* C36 as the specification states it: in an iteration of the poller with
\* --delete-removed, a delete call is sent for a file only if the latest
\* revision has no such file, and a file that the latest revision has and
\* that the filter kept is pushed with its content at the latest revision.
\* Stated for the files of dashboards and for the iterations in which
\* nothing was made to fail.
C36_DeleteOnlyAbsentFiles ==
    (Merged /\ pushLog.started /\ deleteRemoved) =>
        \A i \in 1..Len(pushLog.calls) :
            LET call == pushLog.calls[i]
            IN /\ (call.op = "delete" /\ ~IsVersionsFile(call.entry.name)) =>
                      local[pushLog.to].tree[call.entry.name] = NoFile
               /\ (/\ call.op = "create-or-update"
                   /\ call.entry.name \in DOMAIN pushLog.contents
                   /\ local[pushLog.to].tree[call.entry.name] # NoFile) =>
                      call.content = AtRevision(pushLog.to, call.entry.name)

\* The dashboards whose rewrite failed in the last pull pass.
RewriteFailed == pullLog.attempted \ pullLog.written

\* C37 as the specification states it: when the rewrite of a dashboard's file
\* fails in a pull pass, the file that was there before the rewrite is still
\* there after the pass, with the content it had.
C37_FailedRewriteKeepsFile ==
    (pullLog.ran /\ pullLog.looped) =>
        \A s \in RewriteFailed :
            pullLog.before[FileOfSlug(s)] # NoFile =>
                worktree[FileOfSlug(s)] = pullLog.before[FileOfSlug(s)]

\* The pass left every file of a dashboard that was there after its Sync, and
\* every entry of the ledger that was there, with its version when Grafana no
\* longer has the dashboard.
KeepsFilesAndEntries ==
    /\ \A s \in Slugs :
          pullLog.before[FileOfSlug(s)] # NoFile =>
              /\ worktree[FileOfSlug(s)] # NoFile
              /\ ~grafana[s].present =>
                    worktree[FileOfSlug(s)] = pullLog.before[FileOfSlug(s)]
    /\ \A s \in DOMAIN Persisted(pullLog.before) :
          /\ s \in DOMAIN Persisted(worktree)
          /\ ~grafana[s].present =>
                Persisted(worktree)[s] = Persisted(pullLog.before)[s]

\* C38 as the specification states it: a pull pass deletes no file of a
\* dashboard and removes no entry of the ledger; a dashboard that Grafana no
\* longer has keeps its file and its version in the ledger.
C38_PullNeverDeletes ==
    (pullLog.ran /\ pullLog.synced) => KeepsFilesAndEntries

\* The last iteration of the poller ran its pull pass, which returned an
\* error.
TrailingPullFailed ==
    /\ pushLog.ran /\ pushLog.source = "poller" /\ pushLog.pulls = 1
    /\ pullLog.ran /\ pullLog.err

\* C39 as the specification states it: after an iteration of the poller whose
\* pull pass failed the loop goes on with the iteration's revision as the
\* previous one, and the iteration that follows, no commit having arrived
\* and nothing being made to fail, goes on as well, makes no call to Grafana
\* and runs no pull pass.
C39_FailedPullIsNotRetried ==
    /\ [](TrailingPullFailed =>
            poll.pc = "loop" /\ poll.previousCommit.n = pushLog.to)
    /\ [][(/\ TrailingPullFailed
           /\ pushLog'.ran /\ pushLog'.source = "poller"
           /\ pushLog'.fault = "none") =>
              /\ poll'.pc = "loop"
              /\ ~pushLog'.started
              /\ pushLog'.calls = <<>>
              /\ ~pullLog'.ran]_vars

=============================================================================
